---- MODULE Spec2Model ----
(***************************************************************************)
(* Liebert GXE serial UPS driver (drivers/liebert-gxe.c, liebert-gxe.h).   *)
(*                                                                         *)
(* Characters are their ASCII codes; a C buffer is a sequence whose        *)
(* element at C offset o is the element at index o+1.                      *)
(***************************************************************************)
EXTENDS Integers, Sequences, FiniteSets, TLC

VARIABLES
    pc,           \* lifecycle: "new", "initups", "running", "fatal"
    devaddr,      \* static char *devaddr
    poll_state,   \* static enum gxe_poll_state poll_state
    status_buf,   \* status transaction buffer (status_init/status_set)
    ups_status,   \* committed status set (status_commit)
    alarm_buf,    \* alarm transaction buffer (alarm_init/alarm_set)
    ups_alarm,    \* committed alarm set (alarm_commit)
    dstate,       \* the facts the last operation set with dstate_setinfo
    cmds,         \* command names registered with dstate_addcmd
    data_ok,      \* dstate_dataok / dstate_datastale
    buf,          \* reply buffer of the last exchange
    last,         \* what the last driver operation did
    call          \* a direct call of one codec function: inputs and result

vars == <<pc, devaddr, poll_state, status_buf, ups_status, alarm_buf,
          ups_alarm, dstate, cmds, data_ok, buf, last, call>>

driver_vars == <<pc, devaddr, poll_state, status_buf, ups_status, alarm_buf,
                 ups_alarm, dstate, cmds, data_ok, buf, last>>

----------------------------------------------------------------------------
(* Bounds of the model's inputs                                            *)

\* longest payload handed to frame_make
MaxPayload == 110

----------------------------------------------------------------------------
(* Characters and integer helpers                                          *)

NUL == 0
SOI == 126
EOI == 13

RECURSIVE BitAnd(_, _)
BitAnd(a, b) ==
    IF a = 0 \/ b = 0 THEN 0
    ELSE (IF a % 2 = 1 /\ b % 2 = 1 THEN 1 ELSE 0) + 2 * BitAnd(a \div 2, b \div 2)

RECURSIVE BitOr(_, _)
BitOr(a, b) ==
    IF a = 0 THEN b
    ELSE IF b = 0 THEN a
    ELSE (IF a % 2 = 1 \/ b % 2 = 1 THEN 1 ELSE 0) + 2 * BitOr(a \div 2, b \div 2)

\* the character printf's %X gives a digit 0..15
HexChar(d) == IF d < 10 THEN 48 + d ELSE 55 + d

\* the value strtol gives a character in base 16, -1 when it is no digit
HexDigitVal(c) ==
    IF c >= 48 /\ c <= 57 THEN c - 48
    ELSE IF c >= 65 /\ c <= 70 THEN c - 55
    ELSE IF c >= 97 /\ c <= 102 THEN c - 87
    ELSE -1

IsSpace(c) == c = 32 \/ (c >= 9 /\ c <= 13)

RECURSIVE HexDigits(_)
HexDigits(v) ==
    IF v < 16 THEN <<HexChar(v)>>
    ELSE Append(HexDigits(v \div 16), HexChar(v % 16))

RECURSIVE ZeroPad(_, _)
ZeroPad(s, w) == IF Len(s) >= w THEN s ELSE ZeroPad(<<48>> \o s, w)

\* snprintf(fbuf, 7, "%04X", v): at least 4 digits, at most 6 kept, then NUL
Keep6(full) == IF Len(full) > 6 THEN SubSeq(full, 1, 6) ELSE full
Fmt04X(v) == Append(Keep6(ZeroPad(HexDigits(v), 4)), NUL)

\* memcpy(dst + off, src, n), within dst
MemCpy(dst, off, src, n) ==
    SubSeq(dst, 1, off) \o SubSeq(src, 1, n) \o SubSeq(dst, off + n + 1, Len(dst))

\* a buffer of n bytes c
Fill(n, c) == SubSeq([i \in 1..n |-> c], 1, n)

----------------------------------------------------------------------------
(* strtol(s, NULL, 16) and val_from_hex                                    *)

RECURSIVE SkipSpace(_, _)
SkipSpace(s, i) ==
    IF i <= Len(s) /\ IsSpace(s[i]) THEN SkipSpace(s, i + 1) ELSE i

\* the int a long converts to when val_from_hex returns it: the low 32 bits,
\* given as two 16-bit halves, read as a signed number
IntOfHalves(hi, lo) == IF hi >= 32768 THEN (hi - 65536) * 65536 + lo ELSE hi * 65536 + lo

\* the digits from s[i] on accumulated into a long of which the low 32 bits
\* are kept in two halves (at most 15 digits: the long does not overflow)
RECURSIVE AccWide(_, _, _, _)
AccWide(s, i, hi, lo) ==
    IF i > Len(s) \/ HexDigitVal(s[i]) < 0 THEN IntOfHalves(hi, lo)
    ELSE AccWide(s, i + 1,
                 (hi * 16 + ((lo * 16 + HexDigitVal(s[i])) \div 65536)) % 65536,
                 (lo * 16 + HexDigitVal(s[i])) % 65536)

\* the digits from s[i] on accumulated onto acc, as the int val_from_hex
\* returns: exact below 2^31, the low 32 bits beyond
RECURSIVE AccHex(_, _, _)
AccHex(s, i, acc) ==
    IF i > Len(s) \/ HexDigitVal(s[i]) < 0 THEN acc
    ELSE IF acc >= 134217728 THEN AccWide(s, i, acc \div 65536, acc % 65536)
    ELSE AccHex(s, i + 1, acc * 16 + HexDigitVal(s[i]))

\* the digits of strtol: an optional 0x/0X that a hex digit follows, then
\* hex digits up to the first character that is none
StrtolDigits(s, i1) ==
    AccHex(s, IF /\ i1 + 2 <= Len(s)
                 /\ s[i1] = 48
                 /\ (s[i1 + 1] = 120 \/ s[i1 + 1] = 88)
                 /\ HexDigitVal(s[i1 + 2]) >= 0
              THEN i1 + 2 ELSE i1, 0)

\* strtol after the leading white space: an optional sign, then the digits
\* the int -v converts to, v being a long that converts to the int w
Neg32(w) == IF w = -2147483647 - 1 THEN w ELSE 0 - w

StrtolSigned(s, i0) ==
    IF i0 <= Len(s) /\ s[i0] = 45 THEN Neg32(StrtolDigits(s, i0 + 1))
    ELSE IF i0 <= Len(s) /\ s[i0] = 43 THEN StrtolDigits(s, i0 + 1)
    ELSE StrtolDigits(s, i0)

strtol16(s) == StrtolSigned(s, SkipSpace(s, 1))

\* val_from_hex(b + off, dlen): the field is copied into val_buf, which strtol
\* then parses
val_from_hex(b, off, dlen) ==
    IF dlen > 15 THEN 0
    ELSE CHOOSE val \in {strtol16(val_buf) :
                            val_buf \in {SubSeq(b, off + 1, off + dlen)}} : TRUE

----------------------------------------------------------------------------
(* Frame codec                                                             *)

gxe_cmds ==
    <<  <<48, 48, 48, 48>>,    \* GXE_FIRST
        <<50, 65, 52, 50>>,    \* GXE_GET_ANALOG_DATA
        <<50, 65, 52, 51>>,    \* GXE_GET_ONOFF_DATA
        <<50, 65, 52, 52>>,    \* GXE_GET_WARNING_DATA
        <<50, 65, 52, 53>>,    \* GXE_REMOTE_COMMAND
        <<50, 65, 52, 55>>,    \* GXE_GET_SYS_PARAM
        <<50, 65, 52, 57>>,    \* GXE_SET_SYS_PARAM
        <<50, 65, 52, 70>>,    \* GXE_GET_PROTO_VER
        <<50, 65, 53, 48>>,    \* GXE_GET_DEV_ADDR
        <<50, 65, 53, 49>>,    \* GXE_GET_VENDOR_INFO
        <<50, 65, 56, 48>>,    \* GXE_GET_VENDOR_VER
        <<50, 65, 69, 53>>,    \* GXE_GET_FW_VER
        <<50, 65, 69, 54>> >>  \* GXE_PARA_ANALOG_DATA

GXE_GET_ANALOG_DATA  == 1
GXE_GET_ONOFF_DATA   == 2
GXE_GET_WARNING_DATA == 3
GXE_REMOTE_COMMAND   == 4
GXE_GET_SYS_PARAM    == 5
GXE_GET_VENDOR_INFO  == 9

\* gxe_cmds[cmdi], the enum counting from 0
CmdChars(cmdi) == gxe_cmds[cmdi + 1]

\* htole16 on a little-endian build
htole16(x) == x % 65536

\* the uint8_t accumulator of proto_lchecksum after the four additions
LenchkSum(lelen) ==
    LET a1 == (0  + BitAnd(lelen, 15)) % 256
        a2 == (a1 + BitAnd(lelen, 240)) % 256
        a3 == (a2 + BitAnd(lelen, 3840)) % 256
        a4 == (a3 + BitAnd(lelen, 61440)) % 256
    IN  a4

\* the five bytes proto_lchecksum copies to out
\* lenchk = ~(lenchk % 16) + 1 as a uint8_t, then
\* lelen | (uint16_t) lenchk << 12 as a uint16_t, for the accumulator acc
LenchkWord(lelen, acc) ==
    BitOr(lelen, ((256 - (acc % 16)) % 256) * 4096) % 65536

\* proto_lchecksum after lelen = htole16(dlen)
LchecksumOf(lelen) == SubSeq(Fmt04X(LenchkWord(lelen, LenchkSum(lelen))), 1, 5)

\* the five bytes proto_lchecksum copies to out
proto_lchecksum(dlen) == LchecksumOf(htole16(dlen))

\* the sum the loop of proto_checksum accumulates over in[0..len-1], in + 0
\* being b[off + 1]; the bytes are added half by half
RECURSIVE SumBytes(_, _, _)
SumBytes(b, off, len) ==
    IF len = 0 THEN 0
    ELSE IF len = 1 THEN b[off + 1]
    ELSE SumBytes(b, off, len \div 2)
         + SumBytes(b, off + (len \div 2), len - (len \div 2))

\* proto_checksum taking the one's complement: the + 1 forgotten
ChecksumArg_ones(sum) == (65535 - sum) % 65536

\* the argument snprintf gets in proto_checksum, (uint16_t) ~sum + 1: the cast
\* binds before the addition, so the low 16 bits of ~sum (65535 - sum for a sum
\* already reduced below 65536) are incremented as an int
ChecksumArg(sum) == ((65535 - sum) % 65536) + 1

\* the five bytes proto_checksum copies to out
proto_checksum(b, off, len) ==
    SubSeq(Fmt04X(ChecksumArg(SumBytes(b, off, len) % 65536)), 1, 5)

\* frame_make from the checksum on: b holds the frame up to the payload
FrameTail(b, dlen) ==
    [MemCpy(b, 13 + dlen, proto_checksum(b, 1, dlen + 12), 5)
        EXCEPT ![17 + dlen + 1] = EOI]

\* frame_make: the dlen+18 bytes written to buf
frame_make(cmdi, ver, adr, dptr, dlen) ==
    FrameTail(
        MemCpy(MemCpy(MemCpy(MemCpy(MemCpy(
            [Fill(dlen + 18, NUL) EXCEPT ![1] = SOI],
            1, ver, 2),
            3, adr, 2),
            5, CmdChars(cmdi), 4),
            9, proto_lchecksum(dlen), 5),
            13, dptr, dlen),
        dlen)

----------------------------------------------------------------------------
(* Transport adapter                                                       *)

\* the device addresses upsdrv_initups can leave in devaddr: the default "01"
\* and an override, "1F"
DevAddrs == {<<48, 49>>, <<49, 70>>}

\* the requests the driver makes (command, version "21", address, payload,
\* payload length), and the frame frame_make builds for each, computed once
Requests ==
    {<<c, <<50, 49>>, a, <<>>, 0>> :
        c \in {GXE_GET_ANALOG_DATA, GXE_GET_ONOFF_DATA, GXE_GET_WARNING_DATA,
                GXE_GET_SYS_PARAM, GXE_GET_VENDOR_INFO},
        a \in DevAddrs}
    \cup
    {<<GXE_REMOTE_COMMAND, <<50, 49>>, a, d, 4>> :
        a \in DevAddrs,
        d \in {<<49, 48, 48, 50>>, <<49, 48, 48, 51>>, <<50, 48, 48, 49>>,
                <<50, 48, 48, 51>>}}

RequestFrames == {<<k, frame_make(k[1], k[2], k[3], k[4], k[5])>> : k \in Requests}

\* frame_make(key[1], .., key[5])
RequestFrame(key) ==
    IF key \in Requests
    THEN (CHOOSE e \in RequestFrames : e[1] = key)[2]
    ELSE frame_make(key[1], key[2], key[3], key[4], key[5])

\* One exchange as the serial line answers it: x.sent is what ser_send_buf
\* does (-1 error, 0 timeout, 1 all bytes sent), x.rcv what ser_get_buf
\* returns, x.data the contents of the caller's buffer afterwards (the bytes
\* received, followed by whatever the uninitialised buffer held).
\* a call of the serial library and what it returned
Io(fn, ret) == [call |-> fn, ret |-> ret]

\* Exchange calling ser_get_buf whatever ser_send_buf returned
Exchange_recvalways(frame, x) ==
    [ret |-> x.rcv, buf |-> x.data, frame |-> frame,
     io |-> <<Io("flush", 0), Io("send", x.sent), Io("recv", x.rcv)>>]

Exchange(frame, x) ==
    IF x.sent <= 0
    THEN [ret |-> x.sent, buf |-> x.data, frame |-> frame,
          io |-> <<Io("flush", 0), Io("send", x.sent)>>]
    ELSE [ret |-> x.rcv, buf |-> x.data, frame |-> frame,
          io |-> <<Io("flush", 0), Io("send", x.sent), Io("recv", x.rcv)>>]

frame_send_and_recv(cmdi, ver, adr, dptr, dlen, x) ==
    Exchange(RequestFrame(<<cmdi, ver, adr, dptr, dlen>>), x)

rtn_vals ==
    <<"OK", "Bad VER", "Bad CHKSUM", "Bad LCHKSUM", "Invalid CID2",
      "Bad Command Format", "Bad Data">>

RTN_TO_STR(rtn) ==
    IF rtn >= 0 /\ rtn < Len(rtn_vals) THEN rtn_vals[rtn + 1] ELSE "Unknown RTN"

\* validate_ret handing back the received length on success
validate_ret_len(b, ret, minlen) ==
    IF ret < 0
    THEN [ret |-> -1, log |-> "Read failed", decoded |-> FALSE]
    ELSE IF ret < minlen
    THEN [ret |-> -1, log |-> "Short read from UPS", decoded |-> FALSE]
    ELSE LET rtn == val_from_hex(b, 7, 2)
         IN  IF rtn # 0
             THEN [ret |-> -1, log |-> RTN_TO_STR(rtn), decoded |-> TRUE]
             ELSE [ret |-> ret, log |-> "", decoded |-> TRUE]

\* validate_ret without the short-read check
validate_ret_noshort(b, ret, minlen) ==
    IF ret < 0
    THEN [ret |-> -1, log |-> "Read failed", decoded |-> FALSE]
    ELSE LET rtn == val_from_hex(b, 7, 2)
         IN  IF rtn # 0
             THEN [ret |-> -1, log |-> RTN_TO_STR(rtn), decoded |-> TRUE]
             ELSE [ret |-> rtn, log |-> "", decoded |-> TRUE]

\* validate_ret once the return-code field is decoded to rtn
ValidateRtn(rtn) ==
    IF rtn # 0
    THEN [ret |-> -1, log |-> RTN_TO_STR(rtn), decoded |-> TRUE]
    ELSE [ret |-> rtn, log |-> "", decoded |-> TRUE]

\* validate_ret: the value returned, the line logged, and whether the
\* return-code field was read
validate_ret(b, ret, minlen) ==
    IF ret < 0
    THEN [ret |-> -1, log |-> "Read failed", decoded |-> FALSE]
    ELSE IF ret < minlen
    THEN [ret |-> -1, log |-> "Short read from UPS", decoded |-> FALSE]
    ELSE ValidateRtn(val_from_hex(b, 7, 2))

----------------------------------------------------------------------------
(* Construction                                                            *)

NoOp ==
    [op |-> "none", phase |-> "GXE_ONOFF", ret |-> 0, valid |-> FALSE,
     nex |-> 0, tries |-> <<>>, io |-> <<>>, frame |-> <<>>, res |-> "",
     cmd |-> "", pre_status |-> {}, pre_alarm |-> {}]

NoCall == [fn |-> "none"]

\* the statics of liebert-gxe.c before upsdrv_initups: devaddr NULL (here the
\* empty string), poll_state zero (GXE_ONOFF), nothing published
DriverInit ==
    /\ pc = "new"
    /\ devaddr = <<>>
    /\ poll_state = "GXE_ONOFF"
    /\ status_buf = {}
    /\ ups_status = {}
    /\ alarm_buf = {}
    /\ ups_alarm = {}
    /\ dstate = {}
    /\ cmds = {}
    /\ data_ok = FALSE
    /\ buf = <<>>
    /\ last = NoOp

----------------------------------------------------------------------------
(* Direct calls of the codec functions                                     *)

Hex2(v) == <<HexChar((v \div 16) % 16), HexChar(v % 16)>>
Hex4(v) == Hex2(v \div 256) \o Hex2(v % 256)

Put(b, off, chars) == MemCpy(b, off, chars, Len(chars))

\* proto_lchecksum on every payload length
LchecksumInit ==
    /\ DriverInit
    /\ call \in {[fn |-> "proto_lchecksum", dlen |-> n, done |-> FALSE, out |-> <<>>] :
                    n \in 0..MaxPayload}

CallLchecksum ==
    /\ call.fn = "proto_lchecksum"
    /\ ~call.done
    /\ call' = [call EXCEPT !.done = TRUE, !.out = proto_lchecksum(call.dlen)]
    /\ UNCHANGED driver_vars

SpecLchecksum == LchecksumInit /\ [][CallLchecksum]_vars

\* frame_make on payloads of every length; a payload alternates two characters
PayloadChars == {0, 32, 48, 70, 127}
Payload(n, c, d) == SubSeq([i \in 1..n |-> IF i % 2 = 1 THEN c ELSE d], 1, n)

FrameInit ==
    /\ DriverInit
    /\ call \in {[fn |-> "frame_make", cmdi |-> k, ver |-> v, adr |-> a,
                  dptr |-> Payload(n, c, d), done |-> FALSE, out |-> <<>>] :
                    k \in {0, GXE_REMOTE_COMMAND, 12},
                    v \in {<<50, 49>>, <<49, 48>>},
                    a \in {<<48, 49>>, <<70, 70>>},
                    n \in 0..MaxPayload,
                    c \in PayloadChars, d \in {48, 127}}

CallFrameMake ==
    /\ call.fn = "frame_make"
    /\ ~call.done
    /\ call' = [call EXCEPT !.done = TRUE,
                    !.out = frame_make(call.cmdi, call.ver, call.adr,
                                       call.dptr, Len(call.dptr))]
    /\ UNCHANGED driver_vars

SpecFrame == FrameInit /\ [][CallFrameMake]_vars

\* validate_ret on replies of every return code
MaxRtn == 20
RtnFields ==
    {Hex2(v) : v \in 0..MaxRtn} \cup
    {<<70, 70>>, <<48, 97>>, <<32, 48>>, <<32, 51>>, <<48, 71>>, <<71, 49>>, <<45, 49>>}
RetVals == {-2, -1, 0, 1, 8, 12, 13, 32, 33, 64}
MinLens == {1, 9, 13, 13 + 20, 13 + 86, 13 + 54, 13 + 106}

ValidateInit ==
    /\ DriverInit
    /\ call \in {[fn |-> "validate_ret", b |-> Put(Fill(64, 48), 7, f),
                  ret |-> r, minlen |-> m, done |-> FALSE,
                  out |-> [ret |-> 0, log |-> "", decoded |-> FALSE]] :
                    f \in RtnFields, r \in RetVals, m \in MinLens}

CallValidateRet ==
    /\ call.fn = "validate_ret"
    /\ ~call.done
    /\ call' = [call EXCEPT !.done = TRUE,
                    !.out = validate_ret(call.b, call.ret, call.minlen)]
    /\ UNCHANGED driver_vars

SpecValidate == ValidateInit /\ [][CallValidateRet]_vars

\* val_from_hex on the upper-case rendering of numbers of 1..MaxHexLen digits:
\* every first and last digit, the digits between them all 0, all 7 or all F
MaxHexLen == 16
HexNumber(len, a, b, c) ==
    SubSeq([k \in 1..len |-> IF k = 1 THEN a ELSE IF k = len THEN c ELSE b], 1, len)
HexRender(digits) == SubSeq([k \in 1..Len(digits) |-> HexChar(digits[k])], 1, Len(digits))

HexInit ==
    /\ DriverInit
    /\ call \in {[fn |-> "val_from_hex", digits |-> HexNumber(len, a, b, c),
                  done |-> FALSE, out |-> 0] :
                    len \in 1..MaxHexLen, a \in 0..15, b \in {0, 7, 15}, c \in 0..15}

CallValFromHex ==
    /\ call.fn = "val_from_hex"
    /\ ~call.done
    /\ call' = [call EXCEPT !.done = TRUE,
                    !.out = val_from_hex(HexRender(call.digits), 0, Len(call.digits))]
    /\ UNCHANGED driver_vars

SpecHex == HexInit /\ [][CallValFromHex]_vars

----------------------------------------------------------------------------
(* State publication (dstate / status / alarm), as the driver consumes it  *)

status_init == {}
status_set(sb, flags) == sb \cup flags
status_get(sb, flag) == flag \in sb
alarm_init == {}
alarm_set(ab, name) == ab \cup {name}

Fact(name, num, den, str, chars) ==
    [name |-> name, num |-> num, den |-> den, str |-> str, chars |-> chars]

\* dstate_setinfo with a literal string
SetStr(d, name, str) ==
    {f \in d : f.name # name} \cup {Fact(name, 0, 1, str, <<>>)}
\* dstate_setinfo with "%s" of a character buffer
SetChars(d, name, chars) ==
    {f \in d : f.name # name} \cup {Fact(name, 0, 1, "%s", chars)}
\* dstate_setinfo with a number num/den under format fmt
SetNum(d, name, fmt, num, den) ==
    {f \in d : f.name # name} \cup {Fact(name, num, den, fmt, <<>>)}

\* C integer division, truncating toward zero
CDiv(a, b) == IF a >= 0 THEN a \div b ELSE 0 - ((0 - a) \div b)

\* x & mask for an int x and a mask below 256
MaskSet(x, mask) == BitAnd(x % 256, mask) # 0

----------------------------------------------------------------------------
(* Driver constants                                                        *)

PROBE_RETRIES == 3
DATAFLAG_WARN_MASK == 1
DATAFLAG_ONOFF_MASK == 16

\* the protocol version every request carries, "21"
VER21 == <<50, 49>>

gxe_warns ==
    << "",
       "Inverter Out-of-Sync",
       "Unhealthy Main Circuit",
       "Rectifier Failure",
       "Inverter Failure",
       "Unhealthy Bypass",
       "Unhealthy Battery Voltage",
       "",
       "",
       "Power Module Overheated",
       "Unhealthy Fan",
       "Netural Input Missing",
       "Master Line Abnormally Turned-off",
       "Charger Failure",
       "Battery Discharge Declined",
       "Backup Power Supply Failure",
       "Ouput Overloaded",
       "Ouput Shorted",
       "Overload Timed-out",
       "Unhealthy Parallel Machine Current",
       "Parallel Machine Connection Failure",
       "Parallel Machine Address Error",
       "Unhealthy Internal Communication",
       "System Overloaded",
       "Battery Installed Backwards",
       "Battery Not Found" >>

\* ARRAY_SIZE(gxe_warns)
NWarns == Len(gxe_warns)

\* what an operation records of itself: the phase it started in, its last
\* exchange, for each exchange it made whether the reply was accepted (tries)
\* and the transport calls (io), its result; seen is the status set an
\* operation that calls status_get queried, dropped the alarm set an operation
\* that calls alarm_init discarded (both {} for the other operations)
Did(op, ex, valid, tries, io, res, cmd, seen, dropped) ==
    [op |-> op, phase |-> poll_state, ret |-> ex.ret, valid |-> valid,
     nex |-> Len(tries), tries |-> tries, io |-> io, frame |-> ex.frame,
     res |-> res, cmd |-> cmd, pre_status |-> seen, pre_alarm |-> dropped]

----------------------------------------------------------------------------
(* ONOFF phase                                                             *)

\* OnoffNext testing the warning bit first, so that the on/off bit wins
OnoffNext_onofffirst(dflag) ==
    IF MaskSet(dflag, DATAFLAG_ONOFF_MASK) THEN "GXE_ONOFF"
    ELSE IF MaskSet(dflag, DATAFLAG_WARN_MASK) THEN "GXE_WARNING"
    ELSE "GXE_ANALOG"

\* the phase after a validated ONOFF reply with data flag dflag
OnoffNext(dflag) ==
    LET p0 == "GXE_ANALOG"
        p1 == IF MaskSet(dflag, DATAFLAG_ONOFF_MASK) THEN "GXE_ONOFF" ELSE p0
        p2 == IF MaskSet(dflag, DATAFLAG_WARN_MASK) THEN "GXE_WARNING" ELSE p1
    IN  p2

\* the status flags set between status_init and status_commit
OnoffStatus(pwrval, rectval) ==
    IF pwrval = 1 /\ rectval = 226 THEN status_set(status_init, {"OB"})
    ELSE IF pwrval = 1 THEN status_set(status_init, {"OL"})
    ELSE IF pwrval = 2 THEN status_set(status_init, {"OL", "BYPASS"})
    ELSE status_init

\* OnoffCharger reporting an unknown battery status as "resting"
OnoffCharger_default(d, batt) ==
    CASE batt = 225 \/ batt = 226 -> SetStr(d, "battery.charger.status", "charging")
      [] batt = 227 -> SetStr(d, "battery.charger.status", "discharging")
      [] OTHER -> SetStr(d, "battery.charger.status", "resting")

\* the facts an ONOFF reply publishes
OnoffCharger(d, batt) ==
    CASE batt = 224 -> SetStr(d, "battery.charger.status", "resting")
      [] batt = 225 \/ batt = 226 -> SetStr(d, "battery.charger.status", "charging")
      [] batt = 227 -> SetStr(d, "battery.charger.status", "discharging")
      [] OTHER -> d

OnoffTest(d, test) ==
    CASE test = 224 -> SetStr(d, "ups.test.result", "In progress")
      [] test = 225 -> SetStr(d, "ups.test.result", "Idle")
      [] OTHER -> d

OnoffFacts(b) ==
    OnoffTest(OnoffCharger({}, val_from_hex(b, 15 + 6, 2)),
              val_from_hex(b, 15 + 8, 2))

\* upsdrv_updateinfo_onoff after the exchange ex, which validate_ret
\* accepted (ok) or not
OnoffAfter(ex, ok) ==
    /\ buf' = ex.buf
    /\ last' = Did("onoff", ex, ok, <<ok>>, ex.io, "", "", {}, {})
    /\ IF ~ok
       THEN /\ poll_state' = "GXE_ONOFF"
            /\ data_ok' = FALSE
            /\ dstate' = {}
            /\ UNCHANGED <<status_buf, ups_status, alarm_buf, ups_alarm>>
       ELSE /\ poll_state' = OnoffNext(val_from_hex(ex.buf, 13, 2))
            /\ status_buf' = OnoffStatus(val_from_hex(ex.buf, 15, 2),
                                         val_from_hex(ex.buf, 19, 2))
            /\ ups_status' = status_buf'
            /\ dstate' = OnoffFacts(ex.buf)
            /\ data_ok' = TRUE
            /\ UNCHANGED <<alarm_buf, ups_alarm>>

OnoffRecv(ex) == OnoffAfter(ex, ~(validate_ret(ex.buf, ex.ret, 13 + 20).ret < 0))

upsdrv_updateinfo_onoff(x) ==
    \E ex \in {frame_send_and_recv(GXE_GET_ONOFF_DATA, VER21, devaddr, <<>>, 0, x)} :
        OnoffRecv(ex)

----------------------------------------------------------------------------
(* ANALOG phase                                                            *)

\* AnalogStep with a default successor: poll_state set to GXE_WARNING before
\* the data flag is looked at
AnalogStep_advance(ps, sb, us, dflag, volt) ==
    LET p1  == IF MaskSet(dflag, DATAFLAG_ONOFF_MASK) THEN "GXE_ONOFF" ELSE "GXE_WARNING"
        p2  == IF MaskSet(dflag, DATAFLAG_WARN_MASK) THEN "GXE_WARNING" ELSE p1
        f1  == volt = 0 /\ status_get(sb, "OL")
        sb1 == IF f1 THEN status_set(status_init, {"OB"}) ELSE sb
        f2  == volt > 0 /\ status_get(sb1, "OB")
    IN  [poll_state |-> IF f1 \/ f2 THEN "GXE_WARNING" ELSE p2,
         status_buf |-> IF f2 THEN status_set(status_init, {"OL"}) ELSE sb1,
         ups_status |-> IF f2 THEN status_set(status_init, {"OL"})
                        ELSE IF f1 THEN sb1 ELSE us]

\* AnalogStep changing the status without forcing the phase to GXE_WARNING
AnalogStep_noforce(ps, sb, us, dflag, volt) ==
    LET p1  == IF MaskSet(dflag, DATAFLAG_ONOFF_MASK) THEN "GXE_ONOFF" ELSE ps
        p2  == IF MaskSet(dflag, DATAFLAG_WARN_MASK) THEN "GXE_WARNING" ELSE p1
        f1  == volt = 0 /\ status_get(sb, "OL")
        sb1 == IF f1 THEN status_set(status_init, {"OB"}) ELSE sb
        f2  == volt > 0 /\ status_get(sb1, "OB")
    IN  [poll_state |-> p2,
         status_buf |-> IF f2 THEN status_set(status_init, {"OL"}) ELSE sb1,
         ups_status |-> IF f2 THEN status_set(status_init, {"OL"})
                        ELSE IF f1 THEN sb1 ELSE us]

\* AnalogStep setting the new flag without status_init
AnalogStep_noinit(ps, sb, us, dflag, volt) ==
    LET p1  == IF MaskSet(dflag, DATAFLAG_ONOFF_MASK) THEN "GXE_ONOFF" ELSE ps
        p2  == IF MaskSet(dflag, DATAFLAG_WARN_MASK) THEN "GXE_WARNING" ELSE p1
        f1  == volt = 0 /\ status_get(sb, "OL")
        sb1 == IF f1 THEN status_set(sb, {"OB"}) ELSE sb
        f2  == volt > 0 /\ status_get(sb1, "OB")
    IN  [poll_state |-> IF f1 \/ f2 THEN "GXE_WARNING" ELSE p2,
         status_buf |-> IF f2 THEN status_set(sb1, {"OL"}) ELSE sb1,
         ups_status |-> IF f2 THEN status_set(sb1, {"OL"})
                        ELSE IF f1 THEN sb1 ELSE us]

\* poll_state and the status buffers after the data-flag and input-voltage
\* checks of a validated ANALOG reply
AnalogStep(ps, sb, us, dflag, volt) ==
    LET p1  == IF MaskSet(dflag, DATAFLAG_ONOFF_MASK) THEN "GXE_ONOFF" ELSE ps
        p2  == IF MaskSet(dflag, DATAFLAG_WARN_MASK) THEN "GXE_WARNING" ELSE p1
        f1  == volt = 0 /\ status_get(sb, "OL")
        sb1 == IF f1 THEN status_set(status_init, {"OB"}) ELSE sb
        us1 == IF f1 THEN sb1 ELSE us
        p3  == IF f1 THEN "GXE_WARNING" ELSE p2
        f2  == volt > 0 /\ status_get(sb1, "OB")
        sb2 == IF f2 THEN status_set(status_init, {"OL"}) ELSE sb1
        us2 == IF f2 THEN sb2 ELSE us1
        p4  == IF f2 THEN "GXE_WARNING" ELSE p3
    IN  [poll_state |-> p4, status_buf |-> sb2, ups_status |-> us2]

\* the nine measurements an ANALOG reply publishes
AnalogFacts(b) ==
    LET d1 == SetNum({}, "input.voltage", "%.02f", val_from_hex(b, 15, 4), 100)
        d2 == SetNum(d1, "output.voltage", "%.02f", val_from_hex(b, 15 + 12, 4), 100)
        d3 == SetNum(d2, "output.current", "%.02f", val_from_hex(b, 15 + 24, 4), 100)
        d4 == SetNum(d3, "battery.voltage", "%.02f", val_from_hex(b, 15 + 36, 4), 100)
        d5 == SetNum(d4, "output.frequency", "%.02f", val_from_hex(b, 15 + 40, 4), 100)
        d6 == SetNum(d5, "input.frequency", "%.02f", val_from_hex(b, 15 + 52, 4), 100)
        d7 == SetNum(d6, "ups.realpower", "%d", val_from_hex(b, 15 + 64, 4) * 10, 1)
        d8 == SetNum(d7, "ups.power", "%d", val_from_hex(b, 15 + 68, 4) * 10, 1)
        d9 == SetNum(d8, "battery.runtime.low", "%.2f",
                     val_from_hex(b, 15 + 80, 4) * 60, 100)
    IN  d9

\* the assignments of a validated ANALOG reply, r being what AnalogStep gives
AnalogApply(r) ==
    /\ poll_state' = r.poll_state
    /\ status_buf' = r.status_buf
    /\ ups_status' = r.ups_status

\* upsdrv_updateinfo_analog after the exchange ex, which validate_ret
\* accepted (ok) or not
AnalogAfter(ex, ok) ==
    /\ buf' = ex.buf
    /\ last' = Did("analog", ex, ok, <<ok>>, ex.io, "", "",
                    IF ok THEN status_buf ELSE {}, {})
    /\ IF ~ok
       THEN /\ data_ok' = FALSE
            /\ dstate' = {}
            /\ UNCHANGED <<poll_state, status_buf, ups_status, alarm_buf, ups_alarm>>
       ELSE /\ \E dflag \in {val_from_hex(ex.buf, 13, 2)} :
               \E volt \in {CDiv(val_from_hex(ex.buf, 15, 4), 100)} :
               \E r \in {AnalogStep(poll_state, status_buf, ups_status, dflag, volt)} :
                   AnalogApply(r)
            /\ dstate' = AnalogFacts(ex.buf)
            /\ data_ok' = TRUE
            /\ UNCHANGED <<alarm_buf, ups_alarm>>

AnalogRecv(ex) == AnalogAfter(ex, ~(validate_ret(ex.buf, ex.ret, 13 + 86).ret < 0))

upsdrv_updateinfo_analog(x) ==
    \E ex \in {frame_send_and_recv(GXE_GET_ANALOG_DATA, VER21, devaddr, <<>>, 0, x)} :
        AnalogRecv(ex)

----------------------------------------------------------------------------
(* SYSPARAM phase                                                          *)

\* dstate_setinfo of the fact f when the field decodes to 1
SetIfOne(d, field, f) == IF field = 1 THEN {g \in d : g.name # f.name} \cup {f} ELSE d

SysparamFacts(b) ==
    SetNum(
      SetIfOne(
        SetIfOne(
          SetNum(
            SetNum({}, "output.voltage.nominal", "%d", val_from_hex(b, 13 + 18, 4), 1),
            "output.frequency.nominal", "%d", val_from_hex(b, 13 + 18 + 4, 4), 1),
          val_from_hex(b, 13 + 18 + 16, 4),
          Fact("input.transfer.bypass.high", val_from_hex(b, 13 + 18, 4) * 115, 100,
               "%f", <<>>)),
        val_from_hex(b, 13 + 18 + 20, 4),
        Fact("input.transfer.bypass.low", 120, 1, "%d", <<>>)),
      "ups.test.interval", "%lu", val_from_hex(b, 13 + 18 + 60, 4) * 3 * 108000, 1)

\* SysparamAfter moving on to GXE_WARNING whether or not the reply validated
SysparamAfter_failadvance(ex, ok) ==
    /\ buf' = ex.buf
    /\ last' = Did("sysparam", ex, ok, <<ok>>, ex.io, "", "", {}, {})
    /\ UNCHANGED <<status_buf, ups_status, alarm_buf, ups_alarm>>
    /\ poll_state' = "GXE_WARNING"
    /\ IF ~ok
       THEN /\ data_ok' = FALSE
            /\ dstate' = {}
       ELSE /\ dstate' = SysparamFacts(ex.buf)
            /\ data_ok' = TRUE

\* upsdrv_updateinfo_sysparam after the exchange ex, which validate_ret
\* accepted (ok) or not
SysparamAfter(ex, ok) ==
    /\ buf' = ex.buf
    /\ last' = Did("sysparam", ex, ok, <<ok>>, ex.io, "", "", {}, {})
    /\ UNCHANGED <<status_buf, ups_status, alarm_buf, ups_alarm>>
    /\ IF ~ok
       THEN /\ data_ok' = FALSE
            /\ dstate' = {}
            /\ UNCHANGED poll_state
       ELSE /\ poll_state' = "GXE_WARNING"
            /\ dstate' = SysparamFacts(ex.buf)
            /\ data_ok' = TRUE

SysparamRecv(ex) ==
    SysparamAfter(ex, ~(validate_ret(ex.buf, ex.ret, 13 + 106).ret < 0))

upsdrv_updateinfo_sysparam(x) ==
    \E ex \in {frame_send_and_recv(GXE_GET_SYS_PARAM, VER21, devaddr, <<>>, 0, x)} :
        SysparamRecv(ex)

----------------------------------------------------------------------------
(* WARNING phase                                                           *)

\* WarnActive taking every nonzero code for an alarm
WarnActive_nonzero(val) == val # 0

\* the codes that raise an alarm
WarnActive(val) == val = 1 \/ val = 2 \/ val = 3 \/ val = 240

\* the loop over gxe_warns from slot i on, accumulating into ab
RECURSIVE WarnLoop(_, _, _)
WarnLoop(b, i, ab) ==
    IF i >= NWarns THEN ab
    ELSE IF gxe_warns[i + 1] = "" THEN WarnLoop(b, i + 1, ab)
    ELSE IF WarnActive(val_from_hex(b, 15 + i * 2, 2))
         THEN WarnLoop(b, i + 1, alarm_set(ab, gxe_warns[i + 1]))
         ELSE WarnLoop(b, i + 1, ab)

\* the alarm buffer after alarm_init, which discards its contents ab, and the loop
WarnAlarms(b, ab) == WarnLoop(b, 0, alarm_init)

\* WarningAfter closing a cycle ONOFF, ANALOG, WARNING, SYSPARAM: a validated
\* reply moves on to GXE_SYSPARAM
WarningAfter_cyclic(ex, ok) ==
    /\ buf' = ex.buf
    /\ last' = Did("warning", ex, ok, <<ok>>, ex.io, "", "", {},
                    IF ok THEN ups_alarm ELSE {})
    /\ dstate' = {}
    /\ UNCHANGED <<status_buf, ups_status>>
    /\ IF ~ok
       THEN /\ poll_state' = "GXE_WARNING"
            /\ data_ok' = FALSE
            /\ UNCHANGED <<alarm_buf, ups_alarm>>
       ELSE /\ poll_state' = "GXE_SYSPARAM"
            /\ alarm_buf' = WarnAlarms(ex.buf, alarm_buf)
            /\ ups_alarm' = alarm_buf'
            /\ data_ok' = TRUE

\* upsdrv_updateinfo_warning after the exchange ex, which validate_ret
\* accepted (ok) or not
WarningAfter(ex, ok) ==
    /\ buf' = ex.buf
    /\ last' = Did("warning", ex, ok, <<ok>>, ex.io, "", "", {},
                    IF ok THEN ups_alarm ELSE {})
    /\ dstate' = {}
    /\ UNCHANGED <<status_buf, ups_status>>
    /\ IF ~ok
       THEN /\ poll_state' = "GXE_WARNING"
            /\ data_ok' = FALSE
            /\ UNCHANGED <<alarm_buf, ups_alarm>>
       ELSE /\ poll_state' = "GXE_ONOFF"
            /\ alarm_buf' = WarnAlarms(ex.buf, alarm_buf)
            /\ ups_alarm' = alarm_buf'
            /\ data_ok' = TRUE

\* WarningRecv requiring a reply one table slot shorter
WarningRecv_short(ex) ==
    WarningAfter(ex, ~(validate_ret(ex.buf, ex.ret, 13 + 52).ret < 0))

WarningRecv(ex) ==
    WarningAfter(ex, ~(validate_ret(ex.buf, ex.ret, 13 + 54).ret < 0))

upsdrv_updateinfo_warning(x) ==
    \E ex \in {frame_send_and_recv(GXE_GET_WARNING_DATA, VER21, devaddr, <<>>, 0, x)} :
        WarningRecv(ex)

----------------------------------------------------------------------------
(* Commands                                                                *)

\* the lower-case form strcasecmp compares, for the names the model issues
LowerName(cmdname) ==
    CASE cmdname = "LOAD.ON" -> "load.on"
      [] OTHER -> cmdname

\* CmdDataLower sending load.off for a name instcmd does not know
CmdDataLower_default(n) ==
    CASE n = "test.battery.start" -> <<49, 48, 48, 50>>
      [] n = "test.battery.stop"  -> <<49, 48, 48, 51>>
      [] n = "load.on"            -> <<50, 48, 48, 49>>
      [] OTHER                    -> <<50, 48, 48, 51>>

\* the payload of the command whose lower-case name is n, <<>> for a name
\* instcmd does not know
CmdDataLower(n) ==
    CASE n = "test.battery.start" -> <<49, 48, 48, 50>>
      [] n = "test.battery.stop"  -> <<49, 48, 48, 51>>
      [] n = "load.on"            -> <<50, 48, 48, 49>>
      [] n = "load.off"           -> <<50, 48, 48, 51>>
      [] OTHER                    -> <<>>

CmdData(cmdname) == CmdDataLower(LowerName(cmdname))

\* InstcmdTry giving up at the first attempt that does not validate
InstcmdTry_once(retry, data, adr, xs, tries, io, ex) ==
    IF ~(validate_ret(ex.buf, ex.ret, 13).ret < 0)
    THEN [res |-> "STAT_INSTCMD_HANDLED", tries |-> Append(tries, TRUE),
          io |-> io \o ex.io, ex |-> ex]
    ELSE [res |-> "STAT_INSTCMD_FAILED", tries |-> Append(tries, FALSE),
          io |-> io \o ex.io, ex |-> ex]

\* the retry loop of instcmd from attempt retry on; xs[k] is how the line
\* answers the k-th exchange; tries and io accumulate the exchanges made, prev
\* is the last of them
RECURSIVE InstcmdLoop(_, _, _, _, _, _, _)
RECURSIVE InstcmdTry(_, _, _, _, _, _, _)
InstcmdTry(retry, data, adr, xs, tries, io, ex) ==
    IF ~(validate_ret(ex.buf, ex.ret, 13).ret < 0)
    THEN [res |-> "STAT_INSTCMD_HANDLED", tries |-> Append(tries, TRUE),
          io |-> io \o ex.io, ex |-> ex]
    ELSE InstcmdLoop(retry + 1, data, adr, xs, Append(tries, FALSE), io \o ex.io, ex)

InstcmdLoop(retry, data, adr, xs, tries, io, prev) ==
    IF retry >= PROBE_RETRIES
    THEN [res |-> "STAT_INSTCMD_FAILED", tries |-> tries, io |-> io, ex |-> prev]
    ELSE InstcmdTry(retry, data, adr, xs, tries, io,
                    frame_send_and_recv(GXE_REMOTE_COMMAND, VER21, adr, data, 4,
                                        xs[retry + 1]))

NoExchange == [ret |-> 0, buf |-> <<>>, frame |-> <<>>, io |-> <<>>]

\* instcmd for a known command once its retry loop gave r
InstcmdDone(cmdname, r) ==
    /\ last' = Did("instcmd", r.ex, r.res = "STAT_INSTCMD_HANDLED",
                    r.tries, r.io, r.res, cmdname, {}, {})
    /\ buf' = r.ex.buf
    /\ dstate' = {}
    /\ poll_state' = IF r.res = "STAT_INSTCMD_HANDLED"
                      THEN "GXE_SYSPARAM" ELSE poll_state

\* instcmd once the name is matched to the payload data
InstcmdWith(cmdname, data, xs) ==
    IF data = <<>>
    THEN /\ last' = Did("instcmd", NoExchange, FALSE, <<>>, <<>>,
                        "STAT_INSTCMD_UNKNOWN", cmdname, {}, {})
         /\ dstate' = {}
         /\ UNCHANGED <<poll_state, buf>>
    ELSE InstcmdDone(cmdname,
                     InstcmdLoop(0, data, devaddr, xs, <<>>, <<>>, NoExchange))

instcmd(cmdname, xs) == InstcmdWith(cmdname, CmdData(cmdname), xs)

----------------------------------------------------------------------------
(* Start-up                                                                *)

\* substr_from_hex(substr, len, dbuf + off, dlen) from input index i on: the
\* bytes stored at substr[0..] so far are acc; nul is where the NUL goes
RECURSIVE SubstrLoop(_, _, _, _, _, _)
RECURSIVE SubstrStep(_, _, _, _, _, _, _)
SubstrStep(len, dbuf, off, dlen, i, acc, val) ==
    IF val = 32 THEN [bytes |-> acc, nul |-> i \div 2]
    ELSE IF (i \div 2) > len - 1 THEN [bytes |-> acc, nul |-> i \div 2]
    ELSE SubstrLoop(len, dbuf, off, dlen, i + 2, Append(acc, val % 256))

SubstrLoop(len, dbuf, off, dlen, i, acc) ==
    IF i >= dlen THEN [bytes |-> acc, nul |-> i \div 2]
    ELSE SubstrStep(len, dbuf, off, dlen, i, acc, val_from_hex(dbuf, off + i, 2))

substr_from_hex(len, dbuf, off, dlen) == SubstrLoop(len, dbuf, off, dlen, 0, <<>>)

\* the C string a buffer holding bytes and then a NUL reads as
RECURSIVE CStr(_)
CStr(bytes) ==
    IF bytes = <<>> \/ Head(bytes) = NUL THEN <<>>
    ELSE <<Head(bytes)>> \o CStr(Tail(bytes))

\* the probe loop of upsdrv_initinfo from attempt retry on
RECURSIVE ProbeLoop(_, _, _, _, _, _)
RECURSIVE ProbeTry(_, _, _, _, _, _)

\* ProbeTry leaving the loop at the first reply of any length
ProbeTry_anyreply(retry, adr, xs, tries, io, ex) ==
    IF ex.ret > 0
    THEN [tries |-> Append(tries, TRUE), io |-> io \o ex.io, ex |-> ex]
    ELSE ProbeLoop(retry + 1, adr, xs, Append(tries, FALSE), io \o ex.io, ex)

ProbeTry(retry, adr, xs, tries, io, ex) ==
    IF ex.ret > 34
    THEN [tries |-> Append(tries, TRUE), io |-> io \o ex.io, ex |-> ex]
    ELSE ProbeLoop(retry + 1, adr, xs, Append(tries, FALSE), io \o ex.io, ex)

ProbeLoop(retry, adr, xs, tries, io, prev) ==
    IF retry >= PROBE_RETRIES THEN [tries |-> tries, io |-> io, ex |-> prev]
    ELSE ProbeTry(retry, adr, xs, tries, io,
                  frame_send_and_recv(GXE_GET_VENDOR_INFO, VER21, adr, <<>>, 0,
                                      xs[retry + 1]))

\* the three facts upsdrv_initinfo publishes from the reply in b
InitinfoFacts(b) ==
    SetChars(
        SetChars(SetStr({}, "ups.mfr", "EmersonNetworkPower"),
                 "ups.model", CStr(substr_from_hex(64, b, 13, 20).bytes)),
        "ups.id", devaddr)

\* upsdrv_initinfo once its probe loop gave r
InitinfoDone(r) ==
    IF r.ex.ret <= 0
    THEN /\ pc' = "fatal"
         /\ last' = Did("initinfo", r.ex, FALSE, r.tries, r.io,
                        "gxe: failed reading response", "", {}, {})
         /\ UNCHANGED <<poll_state, dstate, cmds, buf>>
    ELSE IF r.ex.ret < 35
    THEN /\ pc' = "fatal"
         /\ last' = Did("initinfo", r.ex, FALSE, r.tries, r.io,
                        "gxe: not enough data", "", {}, {})
         /\ UNCHANGED <<poll_state, dstate, cmds, buf>>
    ELSE /\ pc' = "running"
         /\ last' = Did("initinfo", r.ex, TRUE, r.tries, r.io, "", "", {}, {})
         /\ buf' = r.ex.buf
         /\ dstate' = InitinfoFacts(r.ex.buf)
         /\ cmds' = {"test.battery.start", "test.battery.stop",
                     "load.off", "load.on"}
         /\ poll_state' = "GXE_SYSPARAM"

upsdrv_initinfo(xs) ==
    InitinfoDone(ProbeLoop(0, devaddr, xs, <<>>, <<>>, NoExchange))

\* upsdrv_initups: addr is getval("addr"), <<>> when the variable is not set
upsdrv_initups(addr) ==
    devaddr' = IF addr = <<>> THEN <<48, 49>> ELSE addr

----------------------------------------------------------------------------
(* What the serial line can answer                                         *)

\* largest data flag a reply carries
MaxDflag == 255

X(sent, rcv, data) == [sent |-> sent, rcv |-> rcv, data |-> data]

\* the exchanges that fail before any length is acceptable: send error, send
\* timeout, receive error, receive timeout, short read of short bytes. The
\* buffer holds data that would validate, were it looked at.
FailX(data, short) ==
    {X(-1, 0, data), X(0, 0, data), X(1, -1, data), X(1, 0, data), X(1, short, data)}

RECURSIVE HexStr(_)
HexStr(bytes) ==
    IF bytes = <<>> THEN <<>> ELSE Hex2(Head(bytes)) \o HexStr(Tail(bytes))

OnoffReply(rtn, dflag, pwr, rect, batt, test) ==
    Put(Put(Put(Put(Put(Put(Fill(64, 48), 7, rtn), 13, dflag), 15, pwr),
                19, rect), 21, batt), 23, test)

OnoffGood == OnoffReply(Hex2(0), Hex2(0), Hex2(1), Hex2(225), Hex2(224), Hex2(225))

\* the replies that do not validate: the failed exchanges and two rejections
OnoffBadX ==
    FailX(OnoffGood, 13 + 20 - 1)
    \cup {X(1, 13 + 20, Put(OnoffGood, 7, Hex2(2))), X(1, 64, Put(OnoffGood, 7, Hex2(7)))}

\* every combination of the two data-flag bits with the four power-supply and
\* rectifier readings; every charger and test reading; a lower-case data flag
OnoffX ==
    {X(1, 64, OnoffReply(Hex2(0), df, Hex2(pr[1]), Hex2(pr[2]), Hex2(224), Hex2(225))) :
        df \in {Hex2(0), Hex2(1), Hex2(16), Hex2(17)},
        pr \in {<<1, 225>>, <<1, 226>>, <<2, 225>>, <<3, 226>>}}
    \cup
    {X(1, 13 + 20, OnoffReply(Hex2(0), Hex2(0), Hex2(1), Hex2(225), bt[1], bt[2])) :
        bt \in {<<Hex2(224), Hex2(224)>>, <<Hex2(227), Hex2(225)>>,
                <<Hex2(0), Hex2(225)>>, <<Hex2(226), Hex2(0)>>}}
    \cup {X(1, 13 + 20, OnoffReply(Hex2(0), <<49, 102>>, Hex2(1), Hex2(225),
                                   Hex2(225), Hex2(225)))}
    \cup OnoffBadX

\* a healthy line whose ONOFF replies carry every data flag
OnoffSweepX ==
    {X(1, 13 + 20, OnoffReply(Hex2(0), Hex2(d), Hex2(1), Hex2(225),
                              Hex2(224), Hex2(225))) : d \in 0..MaxDflag}

\* a healthy line reporting the UPS on line, or on battery
OnoffPowerX ==
    {X(1, 13 + 20, OnoffReply(Hex2(0), Hex2(0), Hex2(1), Hex2(rect),
                              Hex2(224), Hex2(225))) : rect \in {225, 226}}

AnalogReply(rtn, dflag, volt) ==
    Put(Put(Put(Put(Put(Put(Put(Put(Put(Put(Put(Fill(128, 48),
        7, rtn), 13, dflag), 15, volt), 27, Hex4(22010)), 39, Hex4(150)),
        51, Hex4(5400)), 55, Hex4(5000)), 67, Hex4(4998)), 79, Hex4(12)),
        83, Hex4(15)), 95, Hex4(50))

AnalogGood == AnalogReply(Hex2(0), Hex2(0), Hex4(22000))

\* input-voltage fields: 0, 0.50 V, 0.99 V, 1 V, 220 V and the text "-100"
VoltFields ==
    {Hex4(0), Hex4(50), Hex4(99), Hex4(100), Hex4(22000), <<45, 49, 48, 48>>}

AnalogBadX ==
    FailX(AnalogGood, 13 + 86 - 1)
    \cup {X(1, 13 + 86, Put(AnalogGood, 7, Hex2(2))), X(1, 128, Put(AnalogGood, 7, Hex2(7)))}

AnalogX ==
    {X(1, 13 + 86, AnalogReply(Hex2(0), Hex2(d), v)) :
        d \in {0, 1, 16, 17}, v \in VoltFields}
    \cup {X(1, 128, AnalogGood)}
    \cup AnalogBadX

\* a healthy line whose ANALOG replies carry every data flag, with an input
\* voltage of 0, 0.99 V or 1 V
AnalogSweepX ==
    {X(1, 13 + 86, AnalogReply(Hex2(0), Hex2(d), v)) :
        d \in 0..MaxDflag, v \in {Hex4(0), Hex4(99), Hex4(100)}}

\* a healthy line with mains present and each combination of the two
\* data-flag bits
AnalogFlagsX ==
    {X(1, 13 + 86, AnalogReply(Hex2(0), Hex2(d), Hex4(22000))) : d \in {0, 1, 16, 17}}

\* a WARNING reply whose slots in slots carry code, every other slot 00
WarnReply(rtn, slots, code) ==
    LET base == Put(Fill(128, 48), 7, rtn)
    IN  SubSeq([k \in 1..128 |->
                    IF \E i \in slots : k - 1 = 15 + 2 * i THEN code[1]
                    ELSE IF \E i \in slots : k - 1 = 15 + 2 * i + 1 THEN code[2]
                    ELSE base[k]], 1, 128)

WarnSlotSets == {{3}, {0, 7, 8}, {13, 25}}
WarnCodes ==
    {Hex2(0), Hex2(1), Hex2(2), Hex2(3), Hex2(240), Hex2(4), Hex2(127),
     Hex2(255), <<102, 48>>}

WarnGood == WarnReply(Hex2(0), {3}, Hex2(2))

WarnX ==
    {X(1, 13 + 54, WarnReply(Hex2(0), 0..25, c)) : c \in WarnCodes}
    \cup {X(1, 13 + 54, WarnReply(Hex2(0), ss, c)) :
            ss \in WarnSlotSets, c \in {Hex2(2), Hex2(240), Hex2(4)}}
    \cup {X(1, 128, WarnGood)}
    \cup FailX(WarnGood, 13 + 54 - 1)
    \cup {X(1, 13 + 54, Put(WarnGood, 7, Hex2(2))), X(1, 128, Put(WarnGood, 7, Hex2(7)))}

SysReply(rtn, nomv, hi, lo, ivl) ==
    Put(Put(Put(Put(Put(Put(Fill(128, 48), 7, rtn), 31, Hex4(nomv)), 35, Hex4(50)),
                47, Hex4(hi)), 51, Hex4(lo)), 91, Hex4(ivl))

SysGood == SysReply(Hex2(0), 220, 1, 1, 1)

SysX ==
    {X(1, r, SysReply(Hex2(0), 220, f[1], f[2], 1)) :
        r \in {13 + 106, 128},
        f \in {<<1, 1>>, <<0, 0>>, <<1, 0>>, <<2, 1>>}}
    \cup {X(1, 13 + 106, SysReply(Hex2(0), 230, 1, 1, 4))}
    \cup FailX(SysGood, 13 + 106 - 1)
    \cup {X(1, 13 + 106, Put(SysGood, 7, Hex2(2))), X(1, 128, Put(SysGood, 7, Hex2(7)))}

CmdGood == Put(Fill(64, 48), 7, Hex2(0))

\* one exchange of a command: send error, receive timeout, short read,
\* rejected with return code 4, accepted
CmdX ==
    {X(-1, 0, CmdGood), X(1, 0, CmdGood), X(1, 12, CmdGood),
     X(1, 13, Put(CmdGood, 7, Hex2(4))), X(1, 13, CmdGood)}

\* the commands issued and, for each, how the line answers its exchanges:
\* load.on meets every sequence of rejection and acceptance,
\* test.battery.start each answer of CmdX at every attempt, the other commands
\* an accepting line
CmdNames ==
    {"test.battery.start", "test.battery.stop", "load.on", "load.off",
     "LOAD.ON", "shutdown.return", "load"}

CmdAnswers(cmdname) ==
    IF cmdname = "load.on"
    THEN [1..PROBE_RETRIES -> {X(1, 13, Put(CmdGood, 7, Hex2(4))), X(1, 13, CmdGood)}]
    ELSE IF cmdname = "test.battery.start"
    THEN {[k \in 1..PROBE_RETRIES |-> x] : x \in CmdX}
    ELSE {[k \in 1..PROBE_RETRIES |-> X(1, 13, CmdGood)]}

VendorReply(name) == Put(Fill(64, 48), 13, HexStr(name))
VendorPadded == VendorReply(<<71, 88, 69, 32, 32, 32, 32, 32, 32, 32>>)
VendorFull   == VendorReply(<<71, 88, 69, 45, 48, 49, 107, 48, 48, 76>>)

VendorX ==
    {X(-1, 0, VendorPadded), X(1, 0, VendorPadded), X(1, 34, VendorPadded),
     X(1, 35, VendorPadded), X(1, 64, VendorFull)}

----------------------------------------------------------------------------
(* Direct calls of substr_from_hex                                         *)

\* substr_from_hex on every capacity 1..MaxCap and every input of up to
\* MaxPairs encoded bytes, each an 'A', a 'B' or a space
MaxCap == 3
MaxPairs == 4
PairBytes == {65, 66, 32}
PairSeqs == UNION {[1..n -> PairBytes] : n \in 0..MaxPairs}

SubstrInit ==
    /\ DriverInit
    /\ call \in {[fn |-> "substr_from_hex", cap |-> cap, pairs |-> ps,
                  done |-> FALSE, out |-> [bytes |-> <<>>, nul |-> 0]] :
                    cap \in 1..MaxCap, ps \in PairSeqs}

CallSubstrFromHex ==
    /\ call.fn = "substr_from_hex"
    /\ ~call.done
    /\ call' = [call EXCEPT !.done = TRUE,
                    !.out = substr_from_hex(call.cap, HexStr(call.pairs), 0,
                                            2 * Len(call.pairs))]
    /\ UNCHANGED driver_vars

SpecSubstr == SubstrInit /\ [][CallSubstrFromHex]_vars

----------------------------------------------------------------------------
(* The driver as the host runs it                                          *)

Init == DriverInit /\ call = NoCall

\* upsdrv_initups under the settings of "addr" in Addrs
Configure(Addrs) ==
    /\ pc = "new"
    /\ \E addr \in Addrs : upsdrv_initups(addr)
    /\ pc' = "initups"
    /\ UNCHANGED <<poll_state, status_buf, ups_status, alarm_buf, ups_alarm,
                   dstate, cmds, data_ok, buf, last, call>>

Probe(XS) ==
    /\ pc = "initups"
    /\ \E xs \in [1..PROBE_RETRIES -> XS] : upsdrv_initinfo(xs)
    /\ UNCHANGED <<devaddr, status_buf, ups_status, alarm_buf, ups_alarm,
                   data_ok, call>>

InitUps == Configure({<<>>} \cup (DevAddrs \ {<<48, 49>>}))
InitInfo == Probe(VendorX)

\* upsdrv_updateinfo dispatches on poll_state; XS is what the line can answer
PollOnoff(XS) ==
    /\ pc = "running" /\ poll_state = "GXE_ONOFF"
    /\ \E x \in XS : upsdrv_updateinfo_onoff(x)
    /\ UNCHANGED <<pc, devaddr, cmds, call>>

PollAnalog(XS) ==
    /\ pc = "running" /\ poll_state = "GXE_ANALOG"
    /\ \E x \in XS : upsdrv_updateinfo_analog(x)
    /\ UNCHANGED <<pc, devaddr, cmds, call>>

PollWarning(XS) ==
    /\ pc = "running" /\ poll_state = "GXE_WARNING"
    /\ \E x \in XS : upsdrv_updateinfo_warning(x)
    /\ UNCHANGED <<pc, devaddr, cmds, call>>

PollSysparam(XS) ==
    /\ pc = "running" /\ poll_state = "GXE_SYSPARAM"
    /\ \E x \in XS : upsdrv_updateinfo_sysparam(x)
    /\ UNCHANGED <<pc, devaddr, cmds, call>>

UpdateInfoOnoff == PollOnoff(OnoffX)
UpdateInfoAnalog == PollAnalog(AnalogX)
UpdateInfoWarning == PollWarning(WarnX)
UpdateInfoSysparam == PollSysparam(SysX)

InstCmd ==
    /\ pc = "running"
    /\ \E cmdname \in CmdNames : \E xs \in CmdAnswers(cmdname) : instcmd(cmdname, xs)
    /\ UNCHANGED <<pc, devaddr, status_buf, ups_status, alarm_buf, ups_alarm,
                   cmds, data_ok, call>>

Next ==
    \/ InitUps
    \/ InitInfo
    \/ UpdateInfoOnoff
    \/ UpdateInfoAnalog
    \/ UpdateInfoWarning
    \/ UpdateInfoSysparam
    \/ InstCmd

Spec == Init /\ [][Next]_vars

\* the driver on a healthy line (every exchange validates, no command is
\* issued) whose ONOFF replies carry every data flag
SweepInitUps == Configure({<<>>})
SweepInitInfo == Probe({X(1, 35, VendorPadded)})
SweepOnoff == PollOnoff(OnoffSweepX)
SweepAnalog == PollAnalog(AnalogFlagsX)
SweepWarning == PollWarning({X(1, 13 + 54, WarnGood)})
SweepSysparam == PollSysparam({X(1, 13 + 106, SysGood)})

NextSweep ==
    \/ SweepInitUps
    \/ SweepInitInfo
    \/ SweepOnoff
    \/ SweepAnalog
    \/ SweepWarning
    \/ SweepSysparam

SpecSweep == Init /\ [][NextSweep]_vars

\* the driver on a healthy line whose ANALOG replies carry every data flag
\* and a voltage on either side of 1 V, the UPS being on line or on battery
VoltInitUps == Configure({<<>>})
VoltInitInfo == Probe({X(1, 64, VendorFull)})
VoltOnoff == PollOnoff(OnoffPowerX)
VoltAnalog == PollAnalog(AnalogSweepX)
VoltWarning == PollWarning({X(1, 128, WarnGood)})
VoltSysparam == PollSysparam({X(1, 128, SysGood)})

NextVolt ==
    \/ VoltInitUps
    \/ VoltInitInfo
    \/ VoltOnoff
    \/ VoltAnalog
    \/ VoltWarning
    \/ VoltSysparam

SpecVolt == Init /\ [][NextVolt]_vars

\* the driver on a quiet line: every exchange validates, every data flag is
\* 0, the input voltage agrees with the status set (below 1 V on battery, 1 V
\* or more otherwise), no command is issued
QuietWarnX ==
    {X(1, 13 + 54, WarnReply(Hex2(0), ss, Hex2(2))) :
        ss \in {{}, {3}, {1, 2}, {4, 5}, {13, 25}, 0..25}}

QuietVolts == {0, 50, 99, 100, 11000, 22000, 23000, 24000}

QuietAnalogAll ==
    {[volt |-> v, x |-> X(1, 13 + 86, AnalogReply(Hex2(0), Hex2(0), Hex4(v)))] :
        v \in QuietVolts}

\* the replies whose voltage agrees with the status buffer sb
QuietAnalogX(sb) ==
    {r.x : r \in {q \in QuietAnalogAll :
                    IF status_get(sb, "OB") THEN CDiv(q.volt, 100) = 0
                    ELSE CDiv(q.volt, 100) > 0}}

QuietInitUps == Configure({<<>>} \cup (DevAddrs \ {<<48, 49>>}))
QuietInitInfo == Probe({X(1, 35, VendorPadded), X(1, 64, VendorFull)})
QuietOnoff == PollOnoff(OnoffPowerX)
QuietAnalog == PollAnalog(QuietAnalogX(status_buf))
QuietWarning == PollWarning(QuietWarnX)
QuietSysparam == PollSysparam({X(1, 13 + 106, SysGood), X(1, 128, SysGood)})

NextQuiet ==
    \/ QuietInitUps
    \/ QuietInitInfo
    \/ QuietOnoff
    \/ QuietAnalog
    \/ QuietWarning
    \/ QuietSysparam

\* the host initialises the driver and then keeps calling upsdrv_updateinfo
SpecQuiet == Init /\ [][NextQuiet]_vars /\ WF_vars(NextQuiet)

----------------------------------------------------------------------------
(* Properties                                                              *)

ValidateDone == call.fn = "validate_ret" /\ call.done
RtnOf(b) == val_from_hex(b, 7, 2)

\* C7 as stated: when the received length is at least the minimum length and
\* the return-code field decodes to 0, validate_ret returns the number of
\* bytes received.
C7_ReturnsReceivedLength ==
    (ValidateDone /\ call.ret >= call.minlen /\ RtnOf(call.b) = 0)
        => call.out.ret = call.ret

\* C7 amended: when the transport result is a received length (not negative)
\* of at least the minimum length and the return-code field decodes to 0,
\* validate_ret reports success by returning 0, the decoded return code,
\* whatever the received length is.
C7_ReturnsZeroOnSuccess ==
    (ValidateDone /\ call.ret >= 0 /\ call.ret >= call.minlen /\ RtnOf(call.b) = 0)
        => (call.out.ret = 0 /\ call.out.decoded)

C7_Witness ==
    /\ ValidateDone
    /\ call.ret = 33 /\ call.minlen = 13 + 20
    /\ RtnOf(call.b) = 0
    /\ call.out.ret = 0

\* the cause the header's table names for a nonzero return code
CauseOf(rtn) ==
    CASE rtn = 1 -> "Bad VER"
      [] rtn = 2 -> "Bad CHKSUM"
      [] rtn = 3 -> "Bad LCHKSUM"
      [] rtn = 4 -> "Invalid CID2"
      [] rtn = 5 -> "Bad Command Format"
      [] rtn = 6 -> "Bad Data"
      [] OTHER   -> "Unknown RTN"

\* C8: validate_ret returns a negative value when the transport result is
\* negative or zero, when the received length is below the minimum length, and
\* when the return-code field decodes to a nonzero value; a code in 1..6 is
\* logged under its name and a code of 7 or more as unknown; the field is
\* decoded only after the length checks passed.
C8_ValidateFails ==
    ValidateDone =>
        /\ (call.ret <= 0 => call.out.ret < 0)
        /\ (call.ret < call.minlen => call.out.ret < 0)
        /\ (call.ret <= 0 \/ call.ret < call.minlen => ~call.out.decoded)
        /\ (call.out.decoded => (call.ret > 0 /\ call.ret >= call.minlen))
        /\ ((call.ret > 0 /\ call.ret >= call.minlen /\ RtnOf(call.b) # 0) =>
                /\ call.out.ret < 0
                /\ call.out.decoded
                /\ (RtnOf(call.b) >= 1 => call.out.log = CauseOf(RtnOf(call.b))))

C8_Witness ==
    /\ ValidateDone
    /\ call.ret = 64 /\ call.minlen = 13
    /\ RtnOf(call.b) = 7
    /\ call.out.ret = -1
    /\ call.out.log = "Unknown RTN"

LchecksumDone == call.fn = "proto_lchecksum" /\ call.done
Nibble(w, k) == (w \div (16 ^ k)) % 16
NibbleSum(w) == Nibble(w, 0) + Nibble(w, 1) + Nibble(w, 2) + Nibble(w, 3)

\* C9: for every payload length 0..110 the length field keeps the length in
\* its low 12 bits and its top nibble is the 4-bit negation of the sum of the
\* length's nibbles, so that the four nibbles of the field sum to 0 modulo 16.
C9_LengthChecksum ==
    LchecksumDone =>
        LET w == val_from_hex(call.out, 0, 4)
        IN  /\ w % 4096 = call.dlen
            /\ NibbleSum(w) % 16 = 0
            /\ Nibble(w, 3) = (16 - (NibbleSum(call.dlen) % 16)) % 16

FrameDone == call.fn = "frame_make" /\ call.done

\* C10: in every frame built by frame_make the checksum field is 4 hex
\* characters that decode to c with (sum of the bytes from the version field
\* through the end of the payload + c) mod 65536 = 0.
C10_PayloadChecksum ==
    FrameDone =>
        LET dlen == Len(call.dptr)
            f    == call.out
            c    == val_from_hex(f, 13 + dlen, 4)
        IN  /\ Len(f) = dlen + 18
            /\ \A k \in 0..3 : HexDigitVal(f[13 + dlen + k + 1]) >= 0
            /\ f[17 + dlen + 1] = EOI
            /\ proto_checksum(f, 1, dlen + 12)[5] = NUL
            /\ (SumBytes(f, 1, dlen + 12) + c) % 65536 = 0

C10_Witness ==
    /\ FrameDone
    /\ Len(call.dptr) = MaxPayload
    /\ call.dptr[1] = 127
    /\ val_from_hex(call.out, 13 + MaxPayload, 4) > 0

----------------------------------------------------------------------------
(* Poll phases, alarms and commands                                        *)

\* a tick of the phase handler op whose reply validate_ret accepted
Ticked(op) == last.op = op /\ last.valid

\* the data flag and the input-voltage field of the reply in buf
DflagOf(b) == val_from_hex(b, 13, 2)
VoltFieldOf(b) == val_from_hex(b, 15, 4)
Bit0(d) == d % 2 = 1
Bit4(d) == (d \div 16) % 2 = 1

\* an ANALOG reply that asks for no other phase: neither data-flag bit set and
\* the voltage in whole volts (the field is in 1/100 V) agreeing with the
\* status set the tick found
AnalogQuiet ==
    /\ Ticked("analog")
    /\ ~Bit0(DflagOf(buf)) /\ ~Bit4(DflagOf(buf))
    /\ ~(VoltFieldOf(buf) \in -99..99 /\ "OL" \in last.pre_status)
    /\ ~(VoltFieldOf(buf) >= 100 /\ "OB" \in last.pre_status)

\* C1 as stated: after a validated ANALOG tick with neither data-flag bit set
\* and a voltage consistent with the status set, the poll phase has advanced
\* to WARNING and is no longer ANALOG.
C1_AnalogAdvancesToWarning ==
    AnalogQuiet => (poll_state = "GXE_WARNING" /\ poll_state # "GXE_ANALOG")

\* C1 amended: after a validated ANALOG tick with neither data-flag bit set
\* and a voltage in whole volts consistent with the status set, the poll
\* phase is left as it was: it remains ANALOG, and the status set is untouched.
C1_AnalogStaysAnalog ==
    AnalogQuiet =>
        /\ last.phase = "GXE_ANALOG"
        /\ poll_state = "GXE_ANALOG"
        /\ status_buf = last.pre_status

C1_Witness ==
    /\ AnalogQuiet
    /\ DflagOf(buf) = 0
    /\ VoltFieldOf(buf) = 22000
    /\ last.pre_status = {"OL"}
    /\ poll_state = "GXE_ANALOG"

\* C2: after a validated ONOFF tick, for every 8-bit data flag: bit 0 set
\* gives WARNING whatever bit 4 is, otherwise bit 4 set gives ONOFF, otherwise
\* the next phase is ANALOG.
C2_OnoffNextPhase ==
    Ticked("onoff") =>
        /\ DflagOf(buf) \in 0..255
        /\ last.phase = "GXE_ONOFF"
        /\ poll_state = IF Bit0(DflagOf(buf)) THEN "GXE_WARNING"
                        ELSE IF Bit4(DflagOf(buf)) THEN "GXE_ONOFF"
                        ELSE "GXE_ANALOG"

C2_Witness ==
    /\ Ticked("onoff")
    /\ DflagOf(buf) = 255
    /\ poll_state = "GXE_WARNING"

\* C3 as stated: in a validated ANALOG tick, whatever the data flag: a voltage
\* field decoding to 0 while the status set contains OL leaves the status set
\* {OB} and the phase WARNING; a voltage field decoding to a nonzero value
\* while the status set contains OB leaves the status set {OL} and the phase
\* WARNING.
C3_VoltageFlipsStatus ==
    Ticked("analog") =>
        /\ (VoltFieldOf(buf) = 0 /\ "OL" \in last.pre_status) =>
                (ups_status = {"OB"} /\ poll_state = "GXE_WARNING")
        /\ (VoltFieldOf(buf) # 0 /\ "OB" \in last.pre_status) =>
                (ups_status = {"OL"} /\ poll_state = "GXE_WARNING")

\* C3 amended: in a validated ANALOG tick, whatever the data flag: a voltage
\* field decoding to less than 1 V (0..99 hundredths) while the status set
\* contains OL leaves the status set {OB} and the phase WARNING; a voltage
\* field decoding to 1 V or more (at least 100) while the status set contains
\* OB leaves the status set {OL} and the phase WARNING; a field of 1..99 while
\* OB is set changes nothing.
C3_WholeVoltsFlipStatus ==
    Ticked("analog") =>
        /\ (VoltFieldOf(buf) \in 0..99 /\ "OL" \in last.pre_status) =>
                /\ ups_status = {"OB"} /\ status_buf = {"OB"}
                /\ poll_state = "GXE_WARNING"
        /\ (VoltFieldOf(buf) >= 100 /\ "OB" \in last.pre_status) =>
                /\ ups_status = {"OL"} /\ status_buf = {"OL"}
                /\ poll_state = "GXE_WARNING"
        /\ (VoltFieldOf(buf) \in 1..99 /\ "OB" \in last.pre_status) =>
                status_buf = last.pre_status

C3_Witness ==
    /\ Ticked("analog")
    /\ Bit4(DflagOf(buf)) /\ ~Bit0(DflagOf(buf))
    /\ VoltFieldOf(buf) = 100
    /\ last.pre_status = {"OB"}
    /\ ups_status = {"OL"}
    /\ poll_state = "GXE_WARNING"

\* the slots of the warning table that carry a name
NamedSlots == {i \in 0..25 : gxe_warns[i + 1] # ""}

\* the 2-character code of slot i in the reply b
WarnCode(b, i) == val_from_hex(b, 15 + 2 * i, 2)

\* C4: after a validated WARNING tick the committed alarm set is exactly the
\* set of named entries of the 26-slot table whose code in the reply is 0x01,
\* 0x02, 0x03 or 0xF0; placeholder slots (0, 7, 8) and other codes raise
\* nothing, and alarms of an earlier tick that are not active are gone.
C4_AlarmSet ==
    Ticked("warning") =>
        /\ NWarns = 26
        /\ NamedSlots = (0..25) \ {0, 7, 8}
        /\ ups_alarm = {gxe_warns[i + 1] :
                            i \in {j \in NamedSlots : WarnCode(buf, j) \in {1, 2, 3, 240}}}
        /\ alarm_buf = ups_alarm

C4_Witness ==
    /\ Ticked("warning")
    /\ "Charger Failure" \in last.pre_alarm
    /\ WarnCode(buf, 0) = 2 /\ WarnCode(buf, 7) = 2
    /\ ups_alarm = {}

\* the names instcmd recognises, as the model issues them
Recognised ==
    {"test.battery.start", "test.battery.stop", "load.on", "load.off", "LOAD.ON"}

\* C5: for a recognised command instcmd makes at most 3 exchange+validate
\* attempts with minimum reply length 13, stops at the first that validates,
\* then sets the phase to SYSPARAM and returns handled; when all 3 fail it
\* returns failed after exactly 3 exchanges and leaves the phase unchanged.
C5_InstcmdRetries ==
    (last.op = "instcmd" /\ last.cmd \in Recognised) =>
        /\ last.nex \in 1..3
        /\ Len(last.io) >= 2 * last.nex /\ Len(last.io) <= 3 * last.nex
        /\ \A k \in 1..(last.nex - 1) : ~last.tries[k]
        /\ last.tries[last.nex] <=> (last.ret >= 13 /\ val_from_hex(buf, 7, 2) = 0)
        /\ last.res \in {"STAT_INSTCMD_HANDLED", "STAT_INSTCMD_FAILED"}
        /\ last.res = "STAT_INSTCMD_HANDLED" <=> last.tries[last.nex]
        /\ last.res = "STAT_INSTCMD_HANDLED" => poll_state = "GXE_SYSPARAM"
        /\ last.res = "STAT_INSTCMD_FAILED" =>
                (last.nex = 3 /\ poll_state = last.phase)

C5_Witness ==
    /\ last.op = "instcmd" /\ last.cmd = "load.on"
    /\ last.tries = <<FALSE, TRUE>>
    /\ last.phase = "GXE_ANALOG"
    /\ poll_state = "GXE_SYSPARAM"
    /\ last.res = "STAT_INSTCMD_HANDLED"

\* C6: instcmd called with a name that is not one of the four recognised
\* names returns unknown, not failed, makes no flush, send or receive, and
\* leaves the poll phase unchanged.
C6_UnknownCommand ==
    (last.op = "instcmd" /\ last.cmd \notin Recognised) =>
        /\ last.res = "STAT_INSTCMD_UNKNOWN"
        /\ last.io = <<>>
        /\ last.nex = 0
        /\ poll_state = last.phase

C6_Witness ==
    /\ last.op = "instcmd" /\ last.cmd = "shutdown.return"
    /\ last.res = "STAT_INSTCMD_UNKNOWN"
    /\ last.io = <<>>
    /\ last.phase = "GXE_WARNING"
    /\ poll_state = "GXE_WARNING"

----------------------------------------------------------------------------
(* Decoders                                                                *)

HexDone == call.fn = "val_from_hex" /\ call.done

\* v is the number the digits (most significant first) write in base 16
RECURSIVE ValueIs(_, _)
ValueIs(v, digits) ==
    IF digits = <<>> THEN v = 0
    ELSE /\ v >= 0
         /\ v % 16 = digits[Len(digits)]
         /\ ValueIs(v \div 16, SubSeq(digits, 1, Len(digits) - 1))

\* C11: for every len in 1..15 and every n with 0 <= n < 16^len, val_from_hex
\* of the len-character upper-case hex rendering of n returns n; for len > 15
\* it returns 0.
C11_HexRoundTrip ==
    HexDone =>
        IF Len(call.digits) > 15 THEN call.out = 0
        ELSE ValueIs(call.out, call.digits)

SubstrDone == call.fn = "substr_from_hex" /\ call.done

Min(a, b) == IF a < b THEN a ELSE b

\* the number of pairs before the first pair that decodes to a space
RECURSIVE BeforeSpace(_)
BeforeSpace(pairs) ==
    IF pairs = <<>> \/ Head(pairs) = 32 THEN 0 ELSE 1 + BeforeSpace(Tail(pairs))

\* C12: for every capacity >= 1 and every even input length substr_from_hex
\* writes only to output indices 0..capacity-1: it stores at most
\* min(input_length/2, capacity-1) decoded bytes, stops exactly at the first
\* pair that decodes to 0x20, and places the NUL at an index <= capacity-1
\* immediately after the last stored byte.
C12_SubstrBounded ==
    SubstrDone =>
        /\ Len(call.out.bytes) <= Min(Len(call.pairs), call.cap - 1)
        /\ Len(call.out.bytes) <= BeforeSpace(call.pairs)
        /\ call.out.bytes = SubSeq(call.pairs, 1, Len(call.out.bytes))
        /\ call.out.nul = Len(call.out.bytes)
        /\ call.out.nul <= call.cap - 1

----------------------------------------------------------------------------
(* Poll ticks                                                              *)

PollOps == {"onoff", "analog", "warning", "sysparam"}

\* the phase upsdrv_updateinfo dispatches to the handler op
PhaseOf(op) ==
    CASE op = "onoff"    -> "GXE_ONOFF"
      [] op = "analog"   -> "GXE_ANALOG"
      [] op = "warning"  -> "GXE_WARNING"
      [] op = "sysparam" -> "GXE_SYSPARAM"
      [] OTHER           -> "none"

\* the step is a poll tick
Tick == last'.op \in PollOps /\ vars' # vars

\* C13: in each of the four phases a poll tick whose exchange fails validation
\* (timeout, I/O error, short read, nonzero return code) leaves the poll phase
\* equal to the phase that was polled, marks the data stale and publishes
\* nothing: the status and alarm buffers and their committed sets are
\* untouched and no fact is set; the phase requested is the one poll_state
\* named, so the same phase is requested again on the next tick.
C13_FailedTickRepeats ==
    [][Tick =>
         /\ PhaseOf(last'.op) = poll_state
         /\ last'.frame = RequestFrame(<<[GXE_ONOFF    |-> GXE_GET_ONOFF_DATA,
                                          GXE_ANALOG   |-> GXE_GET_ANALOG_DATA,
                                          GXE_WARNING  |-> GXE_GET_WARNING_DATA,
                                          GXE_SYSPARAM |-> GXE_GET_SYS_PARAM][poll_state],
                                         VER21, devaddr, <<>>, 0>>)
         /\ ~last'.valid =>
               /\ poll_state' = poll_state
               /\ ~data_ok'
               /\ dstate' = {}
               /\ UNCHANGED <<status_buf, ups_status, alarm_buf, ups_alarm>>]_vars

\* a SYSPARAM tick rejected with a nonzero return code, after the UPS was
\* seen on line
C13_Witness ==
    /\ last.op = "sysparam" /\ ~last.valid
    /\ last.ret >= 13 + 106
    /\ poll_state = "GXE_SYSPARAM"
    /\ ~data_ok
    /\ ups_status = {"OL"}

\* the names of the facts in d
Names(d) == {f.name : f \in d}

AnalogNames ==
    {"input.voltage", "output.voltage", "output.current", "battery.voltage",
     "output.frequency", "input.frequency", "ups.realpower", "ups.power",
     "battery.runtime.low"}

SysparamNames ==
    {"output.voltage.nominal", "output.frequency.nominal", "ups.test.interval"}

\* the tick just made failed and published nothing
FailedEmpty == ~last.valid /\ ~data_ok /\ dstate = {}

\* C14 as stated: every poll tick either fails and publishes nothing (data
\* stale), or succeeds, marks the data fresh and publishes the complete batch of
\* its phase, whatever the reply holds: ONOFF a status flag,
\* battery.charger.status and ups.test.result; ANALOG the nine measurements;
\* WARNING the alarm set; SYSPARAM its parameters.
C14_CompleteBatch ==
    last.op \in PollOps =>
        \/ FailedEmpty
        \/ /\ last.valid /\ data_ok
           /\ last.op = "onoff" =>
                 /\ ups_status # {}
                 /\ Names(dstate) = {"battery.charger.status", "ups.test.result"}
           /\ last.op = "analog" => Names(dstate) = AnalogNames
           /\ last.op = "warning" => ups_alarm = alarm_buf
           /\ last.op = "sysparam" => SysparamNames \subseteq Names(dstate)

\* C14 amended: every poll tick either fails and publishes nothing (data
\* stale), or succeeds and marks the data fresh; a successful ANALOG tick
\* publishes the nine measurements, a successful WARNING tick commits the
\* alarm set, a successful SYSPARAM tick publishes the nominal voltage, the
\* nominal frequency and the test interval, and each bypass limit exactly when
\* its field decodes to 1; a successful ONOFF tick commits a status flag
\* exactly when the power-supply field is 1 or 2, publishes
\* battery.charger.status exactly when the battery-status field is e0..e3 and
\* ups.test.result exactly when the test field is e0 or e1, so on a reply with
\* an unknown code it marks fresh a subset of its batch.
C14_BatchOfKnownCodes ==
    last.op \in PollOps =>
        \/ FailedEmpty
        \/ /\ last.valid /\ data_ok
           /\ last.op = "onoff" =>
                 /\ ups_status # {} <=> val_from_hex(buf, 15, 2) \in {1, 2}
                 /\ ups_status = status_buf
                 /\ "battery.charger.status" \in Names(dstate)
                        <=> val_from_hex(buf, 15 + 6, 2) \in 224..227
                 /\ "ups.test.result" \in Names(dstate)
                        <=> val_from_hex(buf, 15 + 8, 2) \in {224, 225}
                 /\ Names(dstate) \subseteq {"battery.charger.status", "ups.test.result"}
           /\ last.op = "analog" => Names(dstate) = AnalogNames
           /\ last.op = "warning" => ups_alarm = alarm_buf /\ dstate = {}
           /\ last.op = "sysparam" =>
                 /\ SysparamNames \subseteq Names(dstate)
                 /\ "input.transfer.bypass.high" \in Names(dstate)
                        <=> val_from_hex(buf, 13 + 18 + 16, 4) = 1
                 /\ "input.transfer.bypass.low" \in Names(dstate)
                        <=> val_from_hex(buf, 13 + 18 + 20, 4) = 1
                 /\ Names(dstate) \subseteq
                        SysparamNames \cup {"input.transfer.bypass.high",
                                            "input.transfer.bypass.low"}

\* an ONOFF tick marked fresh that published the test result but, the battery
\* status being unknown, no charger status
C14_Witness ==
    /\ last.op = "onoff" /\ last.valid /\ data_ok
    /\ ups_status = {"OL"}
    /\ Names(dstate) = {"ups.test.result"}

----------------------------------------------------------------------------
(* Transport discipline                                                    *)

\* io is a sequence of exchanges, each a flush, then a send, then a receive
\* exactly when the send returned a positive count
RECURSIVE WellOrdered(_)
WellOrdered(io) ==
    \/ io = <<>>
    \/ /\ Len(io) >= 2
       /\ io[1].call = "flush"
       /\ io[2].call = "send"
       /\ IF io[2].ret > 0
          THEN /\ Len(io) >= 3
               /\ io[3].call = "recv"
               /\ WellOrdered(SubSeq(io, 4, Len(io)))
          ELSE WellOrdered(SubSeq(io, 3, Len(io)))

\* the number of calls of fn in io
Calls(io, fn) == Cardinality({k \in 1..Len(io) : io[k].call = fn})

\* C15: every exchange performs exactly one input flush, then exactly one
\* send, then at most one receive, the receive being attempted if and only if
\* the send reported a positive count; it returns the send result when that is
\* <= 0 and the receive result otherwise; within a tick, a command or the probe
\* no flush or send of another exchange comes between the send of an exchange
\* and its receive or failure.
C15_OneExchangeAtATime ==
    /\ WellOrdered(last.io)
    /\ Calls(last.io, "flush") = last.nex
    /\ Calls(last.io, "send") = last.nex
    /\ Calls(last.io, "recv") <= last.nex
    /\ last.io # <<>> =>
          /\ last.ret = last.io[Len(last.io)].ret
          /\ last.io[Len(last.io)].call = "send" => last.ret <= 0

\* a command whose three exchanges each stopped at a failed send
C15_Witness ==
    /\ last.op = "instcmd" /\ last.nex = PROBE_RETRIES
    /\ Len(last.io) = 2 * PROBE_RETRIES
    /\ last.ret = -1

----------------------------------------------------------------------------
(* Start-up probe                                                          *)

\* what the exchanges recorded in io returned, in order
RECURSIVE Returned(_)
Returned(io) ==
    IF io = <<>> THEN <<>>
    ELSE IF Len(io) >= 3 /\ io[3].call = "recv"
    THEN <<io[3].ret>> \o Returned(SubSeq(io, 4, Len(io)))
    ELSE <<io[2].ret>> \o Returned(SubSeq(io, 3, Len(io)))

\* C16: upsdrv_initinfo issues the vendor-info request at most 3 times and
\* stops at the first reply longer than 34 bytes; it completes and sets the
\* poll phase to SYSPARAM if and only if one of the attempts returned more
\* than 34 bytes; otherwise it aborts fatally without setting the phase or
\* registering commands.
C16_ProbeOutcome ==
    last.op = "initinfo" =>
        /\ last.nex \in 1..3
        /\ Len(Returned(last.io)) = last.nex
        /\ \A k \in 1..(last.nex - 1) : Returned(last.io)[k] <= 34
        /\ Returned(last.io)[last.nex] <= 34 => last.nex = 3
        /\ last.frame = RequestFrame(<<GXE_GET_VENDOR_INFO, VER21, devaddr, <<>>, 0>>)
        /\ IF \E k \in 1..last.nex : Returned(last.io)[k] > 34
           THEN /\ pc = "running"
                /\ poll_state = "GXE_SYSPARAM"
                /\ cmds = {"test.battery.start", "test.battery.stop",
                           "load.off", "load.on"}
           ELSE /\ pc = "fatal"
                /\ poll_state = "GXE_ONOFF"
                /\ cmds = {}
                /\ dstate = {}

\* the probe answered on its third attempt, after a timeout and a reply of
\* 34 bytes
C16_Witness ==
    /\ last.op = "initinfo"
    /\ Returned(last.io) = <<0, 34, 35>>
    /\ pc = "running"
    /\ poll_state = "GXE_SYSPARAM"

----------------------------------------------------------------------------
(* The poll cycle                                                          *)

\* C17 as stated: on a quiet line after identification (every exchange
\* validates, every data flag is 0, the input voltage agrees with the status
\* set, no command is issued) each of the phases ONOFF, ANALOG and WARNING is
\* requested infinitely often.
C17_EveryPhaseRecurs ==
    /\ []<>(last.op = "onoff")
    /\ []<>(last.op = "analog")
    /\ []<>(last.op = "warning")

\* C17 amended: on a quiet line after identification the poller reaches
\* ANALOG and from then on requests ANALOG on every tick: ANALOG absorbs the
\* poller, ONOFF and WARNING are not requested again.
C17_AnalogAbsorbs ==
    <>[](last.op = "analog" /\ poll_state = "GXE_ANALOG")

\* an ANALOG tick on a quiet line, on battery with 0.99 V at the input, that
\* left the poller in ANALOG
C17_Witness ==
    /\ last.op = "analog" /\ last.valid
    /\ last.phase = "GXE_ANALOG"
    /\ poll_state = "GXE_ANALOG"
    /\ ups_status = {"OB"}
    /\ val_from_hex(buf, 15, 4) = 99

\* C18: no poll tick moves the poll phase into SYSPARAM from another phase;
\* the phase becomes SYSPARAM only by identification or by a command that
\* returned handled; it stays SYSPARAM across failed SYSPARAM ticks, and a
\* SYSPARAM tick that validates moves it to WARNING.
C18_SysparamOnlyOnDemand ==
    [][/\ (Tick /\ poll_state # "GXE_SYSPARAM") => poll_state' # "GXE_SYSPARAM"
       /\ (poll_state # "GXE_SYSPARAM" /\ poll_state' = "GXE_SYSPARAM") =>
             \/ last'.op = "initinfo" /\ last'.valid
             \/ last'.op = "instcmd" /\ last'.res = "STAT_INSTCMD_HANDLED"
       /\ (Tick /\ poll_state = "GXE_SYSPARAM") =>
             /\ last'.op = "sysparam"
             /\ poll_state' = IF last'.valid THEN "GXE_WARNING" ELSE "GXE_SYSPARAM"]_vars

\* a command accepted at its second attempt while the poller was in ANALOG
\* put it in SYSPARAM
C18_Witness ==
    /\ last.op = "instcmd" /\ last.res = "STAT_INSTCMD_HANDLED"
    /\ last.nex = 2
    /\ last.phase = "GXE_ANALOG"
    /\ poll_state = "GXE_SYSPARAM"

----------------------------------------------------------------------------
(* The status set                                                          *)

StatusSets == {{}, {"OB"}, {"OL"}, {"OL", "BYPASS"}}

\* C19: the committed status set is always one of {}, {OB}, {OL} and
\* {OL, BYPASS}, never OB and OL together; no status transaction is left
\* open; the committed set changes only in a successful ONOFF or ANALOG tick:
\* WARNING ticks, SYSPARAM ticks, failed ticks and commands leave it unchanged.
C19_StatusSet ==
    /\ [](ups_status \in StatusSets /\ status_buf = ups_status)
    /\ [][ups_status' # ups_status =>
            /\ Tick
            /\ last'.op \in {"onoff", "analog"}
            /\ last'.valid]_vars

\* an ANALOG tick that found 0 V while on line through the bypass and
\* committed OB
C19_Witness ==
    /\ last.op = "analog" /\ last.valid
    /\ last.pre_status = {"OL", "BYPASS"}
    /\ ups_status = {"OB"}

----------------------------------------------------------------------------
(* Reads of the reply buffer                                               *)

\* the minimum reply length the operation op requires before it decodes
MinLen(op) ==
    CASE op = "onoff"    -> 13 + 20
      [] op = "analog"   -> 13 + 86
      [] op = "warning"  -> 13 + 54
      [] op = "sysparam" -> 13 + 106
      [] op = "instcmd"  -> 13
      [] op = "initinfo" -> 35
      [] OTHER           -> 0

\* the buffer b with every byte from offset n on replaced by c
Clip(b, n, c) == SubSeq([k \in 1..Len(b) |-> IF k > n THEN c ELSE b[k]], 1, Len(b))

\* what the operation recorded in last published is what its decoders give on
\* the reply b
DecodedFrom(b) ==
    /\ last.op \in PollOps \cup {"instcmd"} =>
          last.valid = ~(validate_ret(b, last.ret, MinLen(last.op)).ret < 0)
    /\ last.op = "onoff" =>
          /\ poll_state = OnoffNext(val_from_hex(b, 13, 2))
          /\ ups_status = OnoffStatus(val_from_hex(b, 15, 2), val_from_hex(b, 19, 2))
          /\ dstate = OnoffFacts(b)
    /\ last.op = "analog" =>
          /\ AnalogStep(last.phase, last.pre_status, last.pre_status,
                        val_from_hex(b, 13, 2), CDiv(val_from_hex(b, 15, 4), 100))
               = [poll_state |-> poll_state, status_buf |-> status_buf,
                  ups_status |-> ups_status]
          /\ dstate = AnalogFacts(b)
    /\ last.op = "warning" => ups_alarm = WarnAlarms(b, last.pre_alarm)
    /\ last.op = "sysparam" => dstate = SysparamFacts(b)
    /\ last.op = "initinfo" => dstate = InitinfoFacts(b)

\* C20: every reply byte a decoder reads lies inside the bytes received: an
\* operation decodes only a reply of at least its minimum length (ONOFF
\* 13+0x14, ANALOG 13+0x56, WARNING 13+0x36, SYSPARAM 13+0x6a, command 13,
\* vendor info 35), every field it decodes ends at or before that length, so
\* what it publishes does not depend on the bytes from that offset on, and it
\* decodes no field when the length check failed.
C20_ReadsWithinReply ==
    last.nex > 0 =>
        IF last.valid
        THEN /\ last.ret >= MinLen(last.op)
             /\ \A c \in {49, 70} : DecodedFrom(Clip(buf, MinLen(last.op), c))
        ELSE /\ last.op \in PollOps => dstate = {}
             /\ (last.ret >= 0 /\ last.ret < MinLen(last.op)) =>
                   \A c \in {49, 70} :
                       ~validate_ret(Clip(buf, 0, c), last.ret, MinLen(last.op)).decoded

\* a WARNING tick on a reply of exactly the minimum length whose last table
\* slot, the two bytes before offset 13+0x36, raised its alarm
C20_Witness ==
    /\ last.op = "warning" /\ last.valid
    /\ last.ret = 13 + 54
    /\ "Battery Not Found" \in ups_alarm
    /\ val_from_hex(buf, 15 + 2 * 25, 2) = 240

====
